---------------------------- MODULE Spec2Model ----------------------------
(***************************************************************************)
(* State-machine model of PaulsReef_Sensors_py3.py: the AtlasI2C probe     *)
(* client (write / settle delay / read / decode), the polling pass         *)
(* read_sensors, the persistence of the readings, the alert evaluation     *)
(* notify with its shared cooldown gate email_time, and the main loop.     *)
(*                                                                         *)
(* Conventions.                                                            *)
(*  - Text is a sequence of character codes; a frame is a sequence of      *)
(*    bytes (0..255).                                                      *)
(*  - Time is counted in half seconds (TicksPerSecond = 2) so that the     *)
(*    settle delays 1.5 s and 0.5 s are whole numbers.  time.sleep(d)      *)
(*    advances the clock by exactly d, the least the call guarantees.      *)
(*  - Decimal numbers are integers counted in thousandths (Scale = 1000),  *)
(*    the resolution of the probes' replies.                               *)
(*  - An uncaught Python exception ends the process: pc = "terminated"     *)
(*    and error names the exception.                                       *)
(***************************************************************************)
EXTENDS Integers, Sequences, FiniteSets, TLC

VARIABLES
    sensors,            \* the registry (OrderedDict sensors), fixed after Init
    pc,                 \* position of the main program
    error,              \* the uncaught exception that ended the process, or "none"
    now,                \* the clock, in ticks
    cycle,              \* number of polling passes started
    idx,                \* read_sensors: position of the for loop in the registry
    ref_temp,           \* read_sensors: ref_temp
    all_curr_readings,  \* read_sensors: all_curr_readings
    device,             \* the AtlasI2C object in use: [current_addr |-> a], or NoDevice
    qpc,                \* position inside AtlasI2C.query
    qcmd,               \* AtlasI2C.query: the argument string
    qresult,            \* AtlasI2C.query: the value returned
    last_frame,         \* the bytes the last file_read.read returned, <<>> once consumed
    log,                \* history: bus operations of the current pass, in program order
    columns,            \* database: columns of table sensors, in table order
    sensors_row,        \* database: the row with the greatest timestamp, <<>> if none
    email_time,         \* notify: the shared cooldown gate
    evals,              \* history: the last two evaluations made by notify
    calls               \* number of AtlasI2C.query calls made by the stand-alone client

vars == <<sensors, pc, error, now, cycle, idx, ref_temp, all_curr_readings,
          device, qpc, qcmd, qresult, last_frame, log, columns, sensors_row,
          email_time, evals, calls>>

-----------------------------------------------------------------------------
(* Bounds of the model.                                                    *)

\* polling passes the main loop may start
MaxCycles == 2
\* length of the arbitrary part of a response payload
MaxHead == 2
\* queries the stand-alone client may make
MaxCalls == 2
\* polling passes the main loop may start when a pass is one step
MaxLoopCycles == 75

-----------------------------------------------------------------------------
(* Units.                                                                  *)

TicksPerSecond == 2
Scale == 1000

-----------------------------------------------------------------------------
(* Text.                                                                   *)

\* "R"
TXT_R == <<82>>
\* "CAL"
TXT_CAL == <<67, 65, 76>>
\* "SLEEP"
TXT_SLEEP == <<83, 76, 69, 69, 80>>
\* "T,"
TXT_T == <<84, 44>>
\* "sleep mode"
TXT_sleep_mode == <<115, 108, 101, 101, 112, 32, 109, 111, 100, 101>>
\* "Error "
TXT_Error == <<69, 114, 114, 111, 114, 32>>

\* str.upper() on one character of Latin-1: a..z and the accented lower-case
\* letters move down by 32
UpperChar(c) ==
    IF (c >= 97 /\ c <= 122) \/ (c >= 224 /\ c <= 254 /\ c # 247) THEN c - 32 ELSE c

\* str.upper()
Upper(s) == [i \in 1..Len(s) |-> UpperChar(s[i])]

\* str.startswith(prefix)
StartsWith(s, prefix) ==
    /\ Len(s) >= Len(prefix)
    /\ \A i \in 1..Len(prefix) : s[i] = prefix[i]

RECURSIVE Digits(_)
\* str(n) for an integer n >= 0
Digits(n) == IF n < 10 THEN <<48 + n>> ELSE Digits(n \div 10) \o <<48 + (n % 10)>>

\* str(n) for an integer n
StrInt(n) == IF n < 0 THEN <<45>> \o Digits(0 - n) ELSE Digits(n)

RECURSIVE FracDigits(_, _)
\* the digits of the fraction f / unit (0 <= f < unit, unit a power of ten),
\* trailing zeros dropped
FracDigits(f, unit) ==
    IF f = 0 THEN <<>>
    ELSE <<48 + ((f * 10) \div unit)>> \o FracDigits((f * 10) % unit, unit)

\* str(x) for a float x of m thousandths: repr keeps at least one fraction digit
StrFloat(m) ==
    LET a == IF m < 0 THEN 0 - m ELSE m
        frac == FracDigits(a % Scale, Scale)
    IN  (IF m < 0 THEN <<45>> ELSE <<>>) \o Digits(a \div Scale) \o <<46>>
            \o (IF frac = <<>> THEN <<48>> ELSE frac)

\* A Python number: an int (ref_temp = 25) or a float, both held in thousandths
PyInt(n) == [int |-> TRUE, milli |-> n * Scale]
PyFloat(m) == [int |-> FALSE, milli |-> m]

\* str(x)
Str(x) == IF x.int THEN StrInt(x.milli \div Scale) ELSE StrFloat(x.milli)

RECURSIVE Utf8(_)
\* str.encode("UTF-8"), for code points below 2048
Utf8(s) ==
    IF s = <<>> THEN <<>>
    ELSE LET c == Head(s)
         IN  (IF c < 128 THEN <<c>> ELSE <<192 + (c \div 64), 128 + (c % 64)>>)
                 \o Utf8(Tail(s))


-----------------------------------------------------------------------------
(* Numbers: float(text) and round(x, ndigits).                             *)

\* "0".."9"
IsDigit(c) == c >= 48 /\ c <= 57

\* position of the first "." in s, or Len(s) + 1
DotPos(s) ==
    IF \E i \in 1..Len(s) : s[i] = 46
    THEN CHOOSE i \in 1..Len(s) : s[i] = 46 /\ \A j \in 1..(i - 1) : s[j] # 46
    ELSE Len(s) + 1

\* s without a leading sign
Unsigned(s) == IF s # <<>> /\ (s[1] = 45 \/ s[1] = 43) THEN Tail(s) ELSE s

\* float(s) accepts s: an optional sign, decimal digits with at most one ".",
\* and at least one digit.  (Exponents, "inf", "nan", "_" and surrounding
\* blanks, which float() also accepts, are outside the payloads drawn here.)
IsFloatText(s) ==
    LET u == Unsigned(s)
        d == DotPos(u)
    IN  /\ \A i \in 1..Len(u) : IsDigit(u[i]) \/ i = d
        /\ \E i \in 1..Len(u) : IsDigit(u[i])

RECURSIVE DigitsValue(_)
\* the integer written by a sequence of digits (0 for none)
DigitsValue(s) ==
    IF s = <<>> THEN 0
    ELSE DigitsValue(SubSeq(s, 1, Len(s) - 1)) * 10 + (s[Len(s)] - 48)

RECURSIVE Pow10(_)
Pow10(n) == IF n = 0 THEN 1 ELSE 10 * Pow10(n - 1)

\* float(s) in thousandths, for s accepted by IsFloatText; fraction digits
\* beyond the third are cut (the probes send at most three)
FloatValue(s) ==
    LET u == Unsigned(s)
        d == DotPos(u)
        ip == SubSeq(u, 1, d - 1)
        fp == SubSeq(u, d + 1, Len(u))
        f3 == SubSeq(fp \o <<48, 48, 48>>, 1, 3)
        a == DigitsValue(ip) * Scale + DigitsValue(f3)
    IN  IF s # <<>> /\ s[1] = 45 THEN 0 - a ELSE a

\* round(x, ndigits) on thousandths: to the nearest multiple of 10^(3-ndigits),
\* a tie going to the even multiple
Round(m, ndigits) ==
    IF ndigits >= 3 THEN m
    ELSE LET unit == Pow10(3 - ndigits)
             q == m \div unit
             r == m % unit
         IN  IF 2 * r > unit THEN (q + 1) * unit
             ELSE IF 2 * r < unit THEN q * unit
             ELSE IF q % 2 = 0 THEN q * unit ELSE (q + 1) * unit

-----------------------------------------------------------------------------
(* AtlasI2C: class attributes and the decoding of a response.              *)

\* 1.5 s
long_timeout == 3
\* 0.5 s
short_timeout == 1
default_address == 102
\* read(num_of_bytes=31)
num_of_bytes == 31

\* x & ~0x80
ClearBit7(x) == IF x >= 128 THEN x - 128 ELSE x

\* result.split("\x00")[0]: the text before the first NUL
BeforeNul(s) ==
    IF \E i \in 1..Len(s) : s[i] = 0
    THEN SubSeq(s, 1, (CHOOSE i \in 1..Len(s) :
                          s[i] = 0 /\ \A j \in 1..(i - 1) : s[j] # 0) - 1)
    ELSE s

\* the mutation of read: the payload is cut at the first NUL received and
\* bit 7 is cleared afterwards
read_split_before_mask(res) ==
    IF res[1] = 1
    THEN LET s == BeforeNul(Tail(res))
         IN  [i \in 1..Len(s) |-> ClearBit7(s[i])]
    ELSE TXT_Error \o StrInt(res[1])

\* the mutation of read: the payload is used as received, bit 7 not cleared
read_unmasked(res) ==
    IF res[1] = 1
    THEN BeforeNul(Tail(res))
    ELSE TXT_Error \o StrInt(res[1])

\* AtlasI2C.read, the Python 3 branch, applied to the bytes res read from the bus
read(res) ==
    IF res[1] = 1
    THEN BeforeNul([i \in 1..(Len(res) - 1) |-> ClearBit7(res[i + 1])])
    ELSE TXT_Error \o StrInt(res[1])


-----------------------------------------------------------------------------
(* What the bus may answer, and what a client may ask.                     *)

\* status bytes a probe sends: 1 success, 2 syntax error, 254 still
\* processing, 255 no data; 129 is the success code with bit 7 set
StatusBytes == {1, 2, 129, 254, 255}

\* payload bytes: NUL, NUL with bit 7 set, "E", "F" with bit 7 set
ByteAlphabet == {0, 128, 69, 198}

\* the numbers a probe may send, by bus address: one inside and one outside
\* the bounds notify applies to that probe's metric.
\* 102 (Temp): "26.374" with bit 7 set on every byte, "29.5"; 99 (pH): "8.2",
\* "8.95"; 100 (Salinity): "35", "38.1" with bit 7 set; other: "250.4"
NumericHeads(addr) ==
    IF addr = 102 THEN { <<178, 182, 174, 179, 183, 180>>, <<50, 57, 46, 53>> }
    ELSE IF addr = 99 THEN { <<56, 46, 50>>, <<56, 46, 57, 53>> }
    ELSE IF addr = 100 THEN { <<51, 53>>, <<179, 184, 174, 177>> }
    ELSE { <<50, 53, 48, 46, 52>> }

AllNumericHeads == UNION { NumericHeads(a) : a \in {98, 99, 100, 102} }

\* the part of a payload that is not padding
Heads == AllNumericHeads \cup UNION { [1..k -> ByteAlphabet] : k \in 0..MaxHead }

\* a response of num_of_bytes bytes: the status, the head, NUL padding
Frame(status, head) ==
    <<status>> \o head \o [i \in 1..(num_of_bytes - 1 - Len(head)) |-> 0]

\* what the stand-alone client may read
Frames == { Frame(s, h) : s \in StatusBytes, h \in Heads }

\* what the main program may read from the probe at addr: success or syntax
\* error, with one of the probe's numbers, an empty payload, or "F", 0x80, "E"
ProbeFrames(addr) ==
    { Frame(s, h) : s \in {1, 2},
                    h \in NumericHeads(addr) \cup { <<>>, <<198, 128, 69>> } }

\* "R" "r" "CAL" "cal,?" "CA" "SLEEP" "Sleep" "sleepy" "SLEE" "T,25" "i" ""
\* "Status" and e-acute
Commands ==
    { <<82>>, <<114>>, <<67, 65, 76>>, <<99, 97, 108, 44, 63>>, <<67, 65>>,
      <<83, 76, 69, 69, 80>>, <<83, 108, 101, 101, 112>>,
      <<115, 108, 101, 101, 112, 121>>, <<83, 76, 69, 69>>, <<84, 44, 50, 53>>,
      <<105>>, <<>>, <<83, 116, 97, 116, 117, 115>>, <<233>> }

NoDevice == [current_addr |-> -1]

\* one bus operation, for the history log: the operation ("bind", "write" or
\* "read"), the position in the registry of the descriptor being polled, the
\* address the stream is bound to, the bytes written, the number of bytes
\* written or asked for, the status byte read (0 if none), and the time
LogEntry(op, data, n, status) ==
    [op |-> op, probe |-> idx, addr |-> device.current_addr, data |-> data,
     n |-> n, status |-> status, t |-> now]

-----------------------------------------------------------------------------
(* AtlasI2C.query, step by step.  The caller sets qcmd and qpc = "write";  *)
(* the value returned is in qresult when qpc = "return".                   *)

\* the mutation of query_plan: the SLEEP case is missing
query_plan_reads_after_sleep(string) ==
    IF StartsWith(Upper(string), TXT_R) \/ StartsWith(Upper(string), TXT_CAL)
    THEN [delay |-> long_timeout, reads |-> TRUE]
    ELSE [delay |-> short_timeout, reads |-> TRUE]

\* the mutation of query_plan: the two timeouts are exchanged
query_plan_swapped(string) ==
    IF StartsWith(Upper(string), TXT_R) \/ StartsWith(Upper(string), TXT_CAL)
    THEN [delay |-> short_timeout, reads |-> TRUE]
    ELSE IF StartsWith(Upper(string), TXT_SLEEP)
    THEN [delay |-> 0, reads |-> FALSE]
    ELSE [delay |-> long_timeout, reads |-> TRUE]

\* the if / elif / else of query: how long it sleeps and whether it reads
query_plan(string) ==
    IF StartsWith(Upper(string), TXT_R) \/ StartsWith(Upper(string), TXT_CAL)
    THEN [delay |-> long_timeout, reads |-> TRUE]
    ELSE IF StartsWith(Upper(string), TXT_SLEEP)
    THEN [delay |-> 0, reads |-> FALSE]
    ELSE [delay |-> short_timeout, reads |-> TRUE]

\* the mutation of AtlasI2C_write: the terminator is not appended
AtlasI2C_write_no_terminator ==
    /\ pc # "terminated"
    /\ qpc = "write"
    /\ \E ok \in BOOLEAN :
        IF ok
        THEN /\ log' = Append(log, LogEntry("write", Utf8(qcmd),
                                            Len(Utf8(qcmd)), 0))
             /\ qpc' = "settle"
             /\ UNCHANGED <<pc, error>>
        ELSE /\ pc' = "terminated"
             /\ error' = "OSError"
             /\ UNCHANGED <<log, qpc>>
    /\ UNCHANGED <<sensors, now, cycle, idx, ref_temp, all_curr_readings, device,
                   qcmd, qresult, last_frame, columns, sensors_row, email_time,
                   evals, calls>>

\* AtlasI2C.write: cmd += "\00"; file_write.write(cmd.encode("UTF-8"))
AtlasI2C_write ==
    /\ pc # "terminated"
    /\ qpc = "write"
    /\ \E ok \in BOOLEAN :
        IF ok
        THEN /\ log' = Append(log, LogEntry("write", Utf8(qcmd \o <<0>>),
                                            Len(Utf8(qcmd \o <<0>>)), 0))
             /\ qpc' = "settle"
             /\ UNCHANGED <<pc, error>>
        ELSE /\ pc' = "terminated"
             /\ error' = "OSError"
             /\ UNCHANGED <<log, qpc>>
    /\ UNCHANGED <<sensors, now, cycle, idx, ref_temp, all_curr_readings, device,
                   qcmd, qresult, last_frame, columns, sensors_row, email_time,
                   evals, calls>>

\* query after the write: time.sleep(timeout), or return "sleep mode"
AtlasI2C_settle ==
    /\ pc # "terminated"
    /\ qpc = "settle"
    /\ IF query_plan(qcmd).reads
       THEN /\ now' = now + query_plan(qcmd).delay
            /\ qpc' = "read"
            /\ UNCHANGED qresult
       ELSE /\ now' = now + query_plan(qcmd).delay
            /\ qpc' = "return"
            /\ qresult' = TXT_sleep_mode
    /\ UNCHANGED <<sensors, pc, error, cycle, idx, ref_temp, all_curr_readings,
                   device, qcmd, last_frame, log, columns, sensors_row, email_time,
                   evals, calls>>

\* return self.read(): file_read.read(31), then the decoding
AtlasI2C_read ==
    /\ pc # "terminated"
    /\ qpc = "read"
    /\ \E ok \in BOOLEAN :
        IF ok
        THEN /\ \E res \in (IF pc = "client" THEN Frames
                           ELSE ProbeFrames(device.current_addr)) :
                /\ last_frame' = res
                /\ qresult' = read(res)
                /\ log' = Append(log, LogEntry("read", <<>>, num_of_bytes, res[1]))
             /\ qpc' = "return"
             /\ UNCHANGED <<pc, error>>
        ELSE /\ pc' = "terminated"
             /\ error' = "OSError"
             /\ UNCHANGED <<log, qpc, qresult, last_frame>>
    /\ UNCHANGED <<sensors, now, cycle, idx, ref_temp, all_curr_readings, device,
                   qcmd, columns, sensors_row, email_time, evals, calls>>

-----------------------------------------------------------------------------
(* A stand-alone client of AtlasI2C: it constructs AtlasI2C() with the     *)
(* default address and calls query with commands of its choice.            *)

\* device.query(cmd)
client_query ==
    /\ pc = "client"
    /\ qpc = "idle"
    /\ calls < MaxCalls
    /\ \E cmd \in Commands : qcmd' = cmd
    /\ qpc' = "write"
    /\ calls' = calls + 1
    /\ log' = <<>>
    /\ last_frame' = <<>>
    /\ UNCHANGED <<sensors, pc, error, now, cycle, idx, ref_temp,
                   all_curr_readings, device, qresult, columns, sensors_row,
                   email_time, evals>>

\* the call returns to the client
client_return ==
    /\ pc = "client"
    /\ qpc = "return"
    /\ qpc' = "idle"
    /\ UNCHANGED <<sensors, pc, error, now, cycle, idx, ref_temp,
                   all_curr_readings, device, qcmd, qresult, last_frame, log,
                   columns, sensors_row, email_time, evals, calls>>

InitQuery ==
    /\ sensors = <<>>
    /\ pc = "client"
    /\ error = "none"
    /\ now = 0
    /\ cycle = 0
    /\ idx = 0
    /\ ref_temp = PyInt(25)
    /\ all_curr_readings = <<>>
    /\ device = [current_addr |-> default_address]
    /\ qpc = "idle"
    /\ qcmd = <<>>
    /\ qresult = <<>>
    /\ last_frame = <<>>
    /\ log = <<>>
    /\ columns = <<>>
    /\ sensors_row = <<>>
    /\ email_time = 0
    /\ evals = <<>>
    /\ calls = 0

NextQuery ==
    \/ client_query
    \/ AtlasI2C_write
    \/ AtlasI2C_settle
    \/ AtlasI2C_read
    \/ client_return

SpecQuery == InitQuery /\ [][NextQuery]_vars

-----------------------------------------------------------------------------
(* Configuration settings.                                                 *)

\* the four descriptors of the OrderedDict sensors, in source order
atlas_sensors ==
    << [sensor_type |-> "atlas_scientific_temp", name |-> "Temp",
        is_connected |-> TRUE, is_ref |-> TRUE, i2c |-> 102, accuracy |-> 2],
       [sensor_type |-> "atlas_scientific", name |-> "pH",
        is_connected |-> TRUE, is_ref |-> FALSE, i2c |-> 99, accuracy |-> 2],
       [sensor_type |-> "atlas_scientific", name |-> "ORP",
        is_connected |-> FALSE, is_ref |-> FALSE, i2c |-> 98, accuracy |-> 0],
       [sensor_type |-> "atlas_scientific_ec", name |-> "Salinity",
        is_connected |-> TRUE, is_ref |-> FALSE, i2c |-> 100, accuracy |-> 2] >>

\* orders in which the descriptors may be listed: as in the source, with pH
\* ahead of Temp, and with Temp last
Orders == { <<1, 2, 3, 4>>, <<2, 1, 3, 4>>, <<2, 3, 4, 1>> }

\* choices of the is_connected flags of Temp, pH, ORP, Salinity: as in the
\* source, with the Temp probe disconnected, and with every probe connected
Connected ==
    { <<TRUE, TRUE, FALSE, TRUE>>, <<FALSE, TRUE, FALSE, TRUE>>,
      <<TRUE, TRUE, TRUE, TRUE>> }

\* the registries considered: the source's descriptors in one of the orders,
\* with one of the choices of is_connected and either value of Temp's is_ref
Registries ==
    { [i \in 1..4 |->
          [atlas_sensors[o[i]] EXCEPT !.is_connected = conn[o[i]],
                                      !.is_ref = (o[i] = 1 /\ ref)]] :
      o \in Orders, conn \in Connected, ref \in BOOLEAN }

\* notification settings; the thresholds are in thousandths
\* seconds
email_delay == 21600
temp_min == 24000
temp_max == 28000
\* 7.6
ph_min == 7600
\* 8.8
ph_max == 8800
sal_min == 30000
sal_max == 37000
\* time.sleep(300) of the main loop, seconds
loop_sleep == 300
\* ref_temp = 25
default_ref_temp == 25

-----------------------------------------------------------------------------
(* Start-up: the database and the table.                                   *)

\* position of column name c in cols, 0 if absent
ColumnIndex(cols, c) ==
    IF \E i \in 1..Len(cols) : cols[i] = c
    THEN CHOOSE i \in 1..Len(cols) : cols[i] = c
    ELSE 0

RECURSIVE AddColumns(_, _, _)
\* create_sensors_table's loop from descriptor i on: ALTER TABLE ... ADD for
\* every connected descriptor; adding an existing column fails and is ignored
AddColumns(cols, reg, i) ==
    IF i > Len(reg) THEN cols
    ELSE AddColumns(IF reg[i].is_connected /\ ColumnIndex(cols, reg[i].name) = 0
                    THEN Append(cols, reg[i].name) ELSE cols, reg, i + 1)

\* remove_unused_sensors: ALTER TABLE ... DROP for every descriptor that is
\* not connected; dropping an absent column fails and is ignored
DropColumns(cols, reg) ==
    SelectSeq(cols, LAMBDA c :
        ~ \E i \in 1..Len(reg) : ~ reg[i].is_connected /\ reg[i].name = c)

\* the process ends with exception e
Raise(e) ==
    /\ pc' = "terminated"
    /\ error' = e

\* create_database()
create_database ==
    /\ pc = "create_database"
    /\ \E ok \in BOOLEAN :
        IF ok THEN pc' = "create_sensors_table" /\ UNCHANGED error
        ELSE Raise("cymysql.Error")
    /\ UNCHANGED <<sensors, now, cycle, idx, ref_temp, all_curr_readings, device,
                   qpc, qcmd, qresult, last_frame, log, columns, sensors_row,
                   email_time, evals, calls>>

\* create_sensors_table()
create_sensors_table ==
    /\ pc = "create_sensors_table"
    /\ \E ok \in BOOLEAN :
        IF ok
        THEN /\ columns' = AddColumns(IF columns = <<>> THEN <<"timestamp">>
                                      ELSE columns, sensors, 1)
             /\ pc' = "remove_unused_sensors"
             /\ UNCHANGED error
        ELSE Raise("cymysql.Error") /\ UNCHANGED columns
    /\ UNCHANGED <<sensors, now, cycle, idx, ref_temp, all_curr_readings, device,
                   qpc, qcmd, qresult, last_frame, log, sensors_row, email_time,
                   evals, calls>>

\* remove_unused_sensors()
remove_unused_sensors ==
    /\ pc = "remove_unused_sensors"
    /\ \E ok \in BOOLEAN :
        IF ok
        THEN /\ columns' = DropColumns(columns, sensors)
             /\ pc' = "read_sensors"
             /\ UNCHANGED error
        ELSE Raise("cymysql.Error") /\ UNCHANGED columns
    /\ UNCHANGED <<sensors, now, cycle, idx, ref_temp, all_curr_readings, device,
                   qpc, qcmd, qresult, last_frame, log, sensors_row, email_time,
                   evals, calls>>

-----------------------------------------------------------------------------
(* read_sensors, step by step.                                             *)

\* the mutation of visits: the is_connected test is missing
visits_all(value) == TRUE

\* if value["is_connected"] is True
visits(value) == value.is_connected

\* the mutation of new_ref_temp: the is_ref test is missing
new_ref_temp_any(value, sensor_reading, ref) ==
    IF value.sensor_type = "atlas_scientific_temp"
    THEN PyFloat(sensor_reading)
    ELSE ref

\* ref_temp after a reading: if value["is_ref"] is True: ref_temp = sensor_reading,
\* in the temperature branch only
new_ref_temp(value, sensor_reading, ref) ==
    IF value.sensor_type = "atlas_scientific_temp" /\ value.is_ref
    THEN PyFloat(sensor_reading)
    ELSE ref

\* all_curr_readings = []; ref_temp = 25
read_sensors_begin ==
    /\ pc = "read_sensors"
    /\ cycle < MaxCycles
    /\ cycle' = cycle + 1
    /\ all_curr_readings' = <<>>
    /\ ref_temp' = PyInt(default_ref_temp)
    /\ idx' = 1
    /\ log' = <<>>
    /\ pc' = "for_sensor"
    /\ UNCHANGED <<sensors, error, now, device, qpc, qcmd, qresult, last_frame,
                   columns, sensors_row, email_time, evals, calls>>

\* a descriptor that is not connected is passed over
read_sensors_skip ==
    /\ pc = "for_sensor"
    /\ idx <= Len(sensors)
    /\ ~ visits(sensors[idx])
    /\ idx' = idx + 1
    /\ UNCHANGED <<sensors, pc, error, now, cycle, ref_temp, all_curr_readings,
                   device, qpc, qcmd, qresult, last_frame, log, columns,
                   sensors_row, email_time, evals, calls>>

\* the mutation of read_sensors_open: the streams of the first device are
\* kept and the address is not bound again
read_sensors_open_no_rebind ==
    /\ pc = "for_sensor"
    /\ idx <= Len(sensors)
    /\ visits(sensors[idx])
    /\ \E ok \in BOOLEAN :
        IF ok
        THEN /\ device' = IF device = NoDevice
                          THEN [current_addr |-> sensors[idx].i2c]
                          ELSE device
             /\ log' = Append(log, [op |-> "bind", probe |-> idx,
                                    addr |-> sensors[idx].i2c, data |-> <<>>,
                                    n |-> 0, status |-> 0, t |-> now])
             /\ IF sensors[idx].sensor_type = "atlas_scientific_temp"
                THEN qcmd' = TXT_R /\ pc' = "query_R"
                ELSE qcmd' = TXT_T \o Str(ref_temp) /\ pc' = "query_T"
             /\ qpc' = "write"
             /\ UNCHANGED error
        ELSE Raise("OSError") /\ UNCHANGED <<device, log, qcmd, qpc>>
    /\ UNCHANGED <<sensors, now, cycle, idx, ref_temp, all_curr_readings,
                   qresult, last_frame, columns, sensors_row, email_time, evals,
                   calls>>

\* device = AtlasI2C(value["i2c"]): the two streams are opened and bound to
\* the address; then the first query of the descriptor is issued, "R" for a
\* temperature probe and "T," + str(ref_temp) for any other
read_sensors_open ==
    /\ pc = "for_sensor"
    /\ idx <= Len(sensors)
    /\ visits(sensors[idx])
    /\ \E ok \in BOOLEAN :
        IF ok
        THEN /\ device' = [current_addr |-> sensors[idx].i2c]
             /\ log' = Append(log, [op |-> "bind", probe |-> idx,
                                    addr |-> sensors[idx].i2c, data |-> <<>>,
                                    n |-> 0, status |-> 0, t |-> now])
             /\ IF sensors[idx].sensor_type = "atlas_scientific_temp"
                THEN qcmd' = TXT_R /\ pc' = "query_R"
                ELSE qcmd' = TXT_T \o Str(ref_temp) /\ pc' = "query_T"
             /\ qpc' = "write"
             /\ UNCHANGED error
        ELSE Raise("OSError") /\ UNCHANGED <<device, log, qcmd, qpc>>
    /\ UNCHANGED <<sensors, now, cycle, idx, ref_temp, all_curr_readings,
                   qresult, last_frame, columns, sensors_row, email_time, evals,
                   calls>>

\* the mutation of read_sensors_compensated: the descriptor's read is left out
read_sensors_compensated_no_read ==
    /\ pc = "query_T"
    /\ qpc = "return"
    /\ idx' = idx + 1
    /\ qpc' = "idle"
    /\ pc' = "for_sensor"
    /\ last_frame' = <<>>
    /\ UNCHANGED <<sensors, error, now, cycle, ref_temp, all_curr_readings,
                   device, qcmd, qresult, log, columns, sensors_row, email_time,
                   evals, calls>>

\* device.query("T," + str(ref_temp)) has returned: its value is dropped and
\* device.query("R") is issued on the same device
read_sensors_compensated ==
    /\ pc = "query_T"
    /\ qpc = "return"
    /\ qcmd' = TXT_R
    /\ qpc' = "write"
    /\ pc' = "query_R"
    /\ last_frame' = <<>>
    /\ UNCHANGED <<sensors, error, now, cycle, idx, ref_temp, all_curr_readings,
                   device, qresult, log, columns, sensors_row, email_time, evals,
                   calls>>

\* sensor_reading = round(float(device.query("R")), value["accuracy"]);
\* all_curr_readings.append([value["name"], sensor_reading]); float() raises
\* ValueError on a text that is no number
read_sensors_append ==
    /\ pc = "query_R"
    /\ qpc = "return"
    /\ IF IsFloatText(qresult)
       THEN LET sensor_reading == Round(FloatValue(qresult), sensors[idx].accuracy)
            IN  /\ all_curr_readings' =
                       Append(all_curr_readings, <<sensors[idx].name, sensor_reading>>)
                /\ ref_temp' = new_ref_temp(sensors[idx], sensor_reading, ref_temp)
                /\ idx' = idx + 1
                /\ pc' = "for_sensor"
                /\ qpc' = "idle"
                /\ last_frame' = <<>>
                /\ UNCHANGED error
       ELSE /\ Raise("ValueError")
            /\ UNCHANGED <<all_curr_readings, ref_temp, idx, qpc, last_frame>>
    /\ UNCHANGED <<sensors, now, cycle, device, qcmd, qresult, log, columns,
                   sensors_row, email_time, evals, calls>>

\* the for loop is over: log_sensor_readings(all_curr_readings) is called
read_sensors_end ==
    /\ pc = "for_sensor"
    /\ idx > Len(sensors)
    /\ pc' = "log_sensor_readings"
    /\ UNCHANGED <<sensors, error, now, cycle, idx, ref_temp, all_curr_readings,
                   device, qpc, qcmd, qresult, last_frame, log, columns,
                   sensors_row, email_time, evals, calls>>

-----------------------------------------------------------------------------
(* log_sensor_readings.                                                    *)

\* a value stored in a DECIMAL(10,2) column: rounded to hundredths, a tie
\* going away from zero
Decimal2(m) ==
    IF m >= 0 THEN ((m + 5) \div 10) * 10 ELSE 0 - (((0 - m) + 5) \div 10) * 10

\* the row inserted with timestamp t after the UPDATEs of the readings whose
\* position is not in failed; a cell is <<>> for NULL and <<v>> for value v.
\* An UPDATE naming a column the table does not have fails and is ignored.
StoredRow(cols, readings, failed, t) ==
    [c \in 1..Len(cols) |->
        IF c = 1 THEN <<t>>
        ELSE IF \E j \in 1..Len(readings) : j \notin failed /\ readings[j][1] = cols[c]
        THEN LET j == CHOOSE j \in 1..Len(readings) :
                          /\ j \notin failed /\ readings[j][1] = cols[c]
                          /\ \A k \in (j + 1)..Len(readings) :
                                 k \in failed \/ readings[k][1] # cols[c]
             IN  <<Decimal2(readings[j][2])>>
        ELSE <<>>]

\* log_sensor_readings(all_curr_readings): INSERT a row stamped now(), then one
\* UPDATE per reading, each inside try / except: pass.  The table keeps every
\* row; only the one with the greatest timestamp is ever read back, and with
\* passes at least loop_sleep apart that is the row just inserted.
log_sensor_readings ==
    /\ pc = "log_sensor_readings"
    /\ \E ok \in BOOLEAN :
        IF ok
        THEN /\ \E failed \in SUBSET (1..Len(all_curr_readings)) :
                    sensors_row' = StoredRow(columns, all_curr_readings, failed, now)
             /\ pc' = "notify"
             /\ UNCHANGED error
        ELSE Raise("cymysql.Error") /\ UNCHANGED sensors_row
    /\ UNCHANGED <<sensors, now, cycle, idx, ref_temp, all_curr_readings, device,
                   qpc, qcmd, qresult, last_frame, log, columns, email_time,
                   evals, calls>>

-----------------------------------------------------------------------------
(* notify.                                                                 *)

\* the three comparisons of notify, in program order: the index into the row
\* x, the bounds, and the words put into the message
Metrics ==
    << [k |-> 1, lo |-> temp_min, hi |-> temp_max, metric |-> "temperature", unit |-> "C"],
       [k |-> 2, lo |-> ph_min, hi |-> ph_max, metric |-> "pH", unit |-> " "],
       [k |-> 3, lo |-> sal_min, hi |-> sal_max, metric |-> "salinity", unit |-> " ppt"] >>

\* the mutation of notify_check: an alert is sent but email_time is not
\* advanced
notify_check_no_advance(st, x, m, has_else, t, smtp_ok) ==
    IF st.error # "none" THEN st
    ELSE IF Len(x) < m.k + 1 THEN [st EXCEPT !.error = "IndexError"]
    ELSE IF x[m.k + 1] = <<>> THEN [st EXCEPT !.error = "TypeError"]
    ELSE IF x[m.k + 1][1] < m.lo \/ x[m.k + 1][1] > m.hi
    THEN IF t >= st.email_time
         THEN IF smtp_ok
              THEN [st EXCEPT
                       !.alerts = Append(@, [metric |-> m.metric,
                                             value |-> x[m.k + 1][1],
                                             unit |-> m.unit]),
                       !.gates = Append(@, st.email_time)]
              ELSE [st EXCEPT !.error = "SMTPException"]
         ELSE [st EXCEPT !.gates = Append(@, st.email_time)]
    ELSE IF has_else
         THEN [st EXCEPT !.email_time = t, !.gates = Append(@, t)]
         ELSE [st EXCEPT !.gates = Append(@, st.email_time)]

\* the mutation of notify_check: the test datetime.now() >= email_time is
\* missing
notify_check_ungated(st, x, m, has_else, t, smtp_ok) ==
    IF st.error # "none" THEN st
    ELSE IF Len(x) < m.k + 1 THEN [st EXCEPT !.error = "IndexError"]
    ELSE IF x[m.k + 1] = <<>> THEN [st EXCEPT !.error = "TypeError"]
    ELSE IF x[m.k + 1][1] < m.lo \/ x[m.k + 1][1] > m.hi
    THEN IF smtp_ok
         THEN [st EXCEPT
                  !.alerts = Append(@, [metric |-> m.metric,
                                        value |-> x[m.k + 1][1],
                                        unit |-> m.unit]),
                  !.email_time = t + email_delay * TicksPerSecond,
                  !.gates = Append(@, t + email_delay * TicksPerSecond)]
         ELSE [st EXCEPT !.error = "SMTPException"]
    ELSE IF has_else
         THEN [st EXCEPT !.email_time = t, !.gates = Append(@, t)]
         ELSE [st EXCEPT !.gates = Append(@, st.email_time)]

\* the mutation of notify_check: an alert that is suppressed starts the
\* cooldown again
notify_check_extends(st, x, m, has_else, t, smtp_ok) ==
    IF st.error # "none" THEN st
    ELSE IF Len(x) < m.k + 1 THEN [st EXCEPT !.error = "IndexError"]
    ELSE IF x[m.k + 1] = <<>> THEN [st EXCEPT !.error = "TypeError"]
    ELSE IF x[m.k + 1][1] < m.lo \/ x[m.k + 1][1] > m.hi
    THEN IF t >= st.email_time
         THEN IF smtp_ok
              THEN [st EXCEPT
                       !.alerts = Append(@, [metric |-> m.metric,
                                             value |-> x[m.k + 1][1],
                                             unit |-> m.unit]),
                       !.email_time = t + email_delay * TicksPerSecond,
                       !.gates = Append(@, t + email_delay * TicksPerSecond)]
              ELSE [st EXCEPT !.error = "SMTPException"]
         ELSE [st EXCEPT !.email_time = t + email_delay * TicksPerSecond,
                         !.gates = Append(@, t + email_delay * TicksPerSecond)]
    ELSE IF has_else
         THEN [st EXCEPT !.email_time = t, !.gates = Append(@, t)]
         ELSE [st EXCEPT !.gates = Append(@, st.email_time)]

\* the mutation of notify_check: an alert closes the gate for twice
\* email_delay
notify_check_long_cooldown(st, x, m, has_else, t, smtp_ok) ==
    IF st.error # "none" THEN st
    ELSE IF Len(x) < m.k + 1 THEN [st EXCEPT !.error = "IndexError"]
    ELSE IF x[m.k + 1] = <<>> THEN [st EXCEPT !.error = "TypeError"]
    ELSE IF x[m.k + 1][1] < m.lo \/ x[m.k + 1][1] > m.hi
    THEN IF t >= st.email_time
         THEN IF smtp_ok
              THEN [st EXCEPT
                       !.alerts = Append(@, [metric |-> m.metric,
                                             value |-> x[m.k + 1][1],
                                             unit |-> m.unit]),
                       !.email_time = t + 2 * email_delay * TicksPerSecond,
                       !.gates = Append(@, t + 2 * email_delay * TicksPerSecond)]
              ELSE [st EXCEPT !.error = "SMTPException"]
         ELSE [st EXCEPT !.gates = Append(@, st.email_time)]
    ELSE IF has_else
         THEN [st EXCEPT !.email_time = t, !.gates = Append(@, t)]
         ELSE [st EXCEPT !.gates = Append(@, st.email_time)]

\* one "if x[k] < min or x[k] > max:" block of notify evaluated at time t from
\* the state st = [email_time, alerts, gates, error]; has_else tells whether
\* the block carries the "else: email_time = datetime.now()".  x[k] of Python
\* is the (k+1)-th cell: x[0] is the timestamp.  Indexing past the row raises
\* IndexError, comparing None raises TypeError, a failed delivery raises
\* SMTPException.  gates is history: the value of email_time at the end of
\* each block that was completed.
notify_check(st, x, m, has_else, t, smtp_ok) ==
    IF st.error # "none" THEN st
    ELSE IF Len(x) < m.k + 1 THEN [st EXCEPT !.error = "IndexError"]
    ELSE IF x[m.k + 1] = <<>> THEN [st EXCEPT !.error = "TypeError"]
    ELSE IF x[m.k + 1][1] < m.lo \/ x[m.k + 1][1] > m.hi
    THEN IF t >= st.email_time
         THEN IF smtp_ok
              THEN [st EXCEPT
                       !.alerts = Append(@, [metric |-> m.metric,
                                             value |-> x[m.k + 1][1],
                                             unit |-> m.unit]),
                       !.email_time = t + email_delay * TicksPerSecond,
                       !.gates = Append(@, t + email_delay * TicksPerSecond)]
              ELSE [st EXCEPT !.error = "SMTPException"]
         ELSE [st EXCEPT !.gates = Append(@, st.email_time)]
    ELSE IF has_else
         THEN [st EXCEPT !.email_time = t, !.gates = Append(@, t)]
         ELSE [st EXCEPT !.gates = Append(@, st.email_time)]

\* the mutation of notify_row: every block carries the else that resets
\* email_time
notify_row_else_everywhere(gate, x, t, smtp_ok) ==
    notify_check(
        notify_check(
            notify_check([email_time |-> gate, alerts |-> <<>>, gates |-> <<>>,
                          error |-> "none"],
                         x, Metrics[1], TRUE, t, smtp_ok),
            x, Metrics[2], TRUE, t, smtp_ok),
        x, Metrics[3], TRUE, t, smtp_ok)

\* the body of "for x in search_database():" for the row x
notify_row(gate, x, t, smtp_ok) ==
    notify_check(
        notify_check(
            notify_check([email_time |-> gate, alerts |-> <<>>, gates |-> <<>>,
                          error |-> "none"],
                         x, Metrics[1], FALSE, t, smtp_ok),
            x, Metrics[2], FALSE, t, smtp_ok),
        x, Metrics[3], TRUE, t, smtp_ok)

\* the metrics whose stored value lies outside its bounds in row x
OutOfBounds(x) ==
    { Metrics[i].metric : i \in { i \in 1..3 :
          /\ Len(x) >= Metrics[i].k + 1
          /\ x[Metrics[i].k + 1] # <<>>
          /\ \/ x[Metrics[i].k + 1][1] < Metrics[i].lo
             \/ x[Metrics[i].k + 1][1] > Metrics[i].hi } }

\* history: the evaluations before the last are dropped
Remember(es, e) == IF Len(es) >= 2 THEN <<es[Len(es)], e>> ELSE Append(es, e)

\* history: the time of the latest evaluation among es and those before that
\* sent an alert, -1 if none did
LastAlert(es) ==
    IF es = <<>> THEN 0 - 1
    ELSE IF es[Len(es)].alerts # <<>> THEN es[Len(es)].t
    ELSE es[Len(es)].prev_alert

\* notify(): the latest row is fetched (twice; the first result is dropped)
\* and compared; the alerts are sent as they arise.  The evaluation is
\* remembered: its time t, email_time before it (gate) and after each block
\* (gates), the metrics out of bounds, the alerts sent, the exception that
\* ended it, and the time of the latest alert before it.
notify ==
    /\ pc = "notify"
    /\ \E db_ok \in BOOLEAN, smtp_ok \in BOOLEAN :
        IF ~ db_ok
        THEN Raise("cymysql.Error") /\ UNCHANGED <<email_time, evals>>
        ELSE IF sensors_row = <<>>
        THEN pc' = "sleep" /\ UNCHANGED <<error, email_time, evals>>
        ELSE LET st == notify_row(email_time, sensors_row, now, smtp_ok)
             IN  /\ email_time' = st.email_time
                 /\ evals' = Remember(evals, [t |-> now,
                                              gate |-> email_time,
                                              out |-> OutOfBounds(sensors_row),
                                              alerts |-> st.alerts,
                                              gates |-> st.gates,
                                              error |-> st.error,
                                              prev_alert |-> LastAlert(evals)])
                 /\ IF st.error = "none"
                    THEN pc' = "sleep" /\ UNCHANGED error
                    ELSE Raise(st.error)
    /\ UNCHANGED <<sensors, now, cycle, idx, ref_temp, all_curr_readings, device,
                   qpc, qcmd, qresult, last_frame, log, columns, sensors_row,
                   calls>>

-----------------------------------------------------------------------------
(* The main program.                                                       *)

\* time.sleep(300)
main_sleep ==
    /\ pc = "sleep"
    /\ now' = now + loop_sleep * TicksPerSecond
    /\ pc' = "read_sensors"
    /\ UNCHANGED <<sensors, error, cycle, idx, ref_temp, all_curr_readings,
                   device, qpc, qcmd, qresult, last_frame, log, columns,
                   sensors_row, email_time, evals, calls>>

\* the module has been loaded: the settings are set, email_time = datetime.now(),
\* the database holds no table yet
Init ==
    /\ sensors \in Registries
    /\ pc = "create_database"
    /\ error = "none"
    /\ now = 0
    /\ cycle = 0
    /\ idx = 0
    /\ ref_temp = PyInt(default_ref_temp)
    /\ all_curr_readings = <<>>
    /\ device = NoDevice
    /\ qpc = "idle"
    /\ qcmd = <<>>
    /\ qresult = <<>>
    /\ last_frame = <<>>
    /\ log = <<>>
    /\ columns = <<>>
    /\ sensors_row = <<>>
    /\ email_time = 0
    /\ evals = <<>>
    /\ calls = 0

Next ==
    \/ create_database
    \/ create_sensors_table
    \/ remove_unused_sensors
    \/ read_sensors_begin
    \/ read_sensors_skip
    \/ read_sensors_open
    \/ AtlasI2C_write
    \/ AtlasI2C_settle
    \/ AtlasI2C_read
    \/ read_sensors_compensated
    \/ read_sensors_append
    \/ read_sensors_end
    \/ log_sensor_readings
    \/ notify
    \/ main_sleep

Spec == Init /\ [][Next]_vars

-----------------------------------------------------------------------------
(* The main program while every exchange succeeds: a pass of read_sensors  *)
(* is one step, so that runs long enough for the cooldown to expire can be *)
(* explored.                                                               *)

\* read_sensors' loop body for the connected descriptor value whose reply to
\* "R" carries status 1 and the payload head: acc holds the readings, ref_temp,
\* the device bound, the last command and result, and the time spent so far
Polled(acc, value, head) ==
    LET cmds == IF value.sensor_type = "atlas_scientific_temp"
                THEN <<TXT_R>>
                ELSE <<TXT_T \o Str(acc.ref_temp), TXT_R>>
        text == read(Frame(1, head))
        sensor_reading == Round(FloatValue(text), value.accuracy)
    IN  [readings |-> Append(acc.readings, <<value.name, sensor_reading>>),
         ref_temp |-> new_ref_temp(value, sensor_reading, acc.ref_temp),
         device |-> [current_addr |-> value.i2c],
         qcmd |-> TXT_R,
         qresult |-> text,
         elapsed |-> acc.elapsed + query_plan(cmds[1]).delay
                        + (IF Len(cmds) = 2 THEN query_plan(cmds[2]).delay ELSE 0)]

\* the numbers a probe may send in these runs, by bus address: the pH probe
\* (99) sends "8.2" only, the others as in NumericHeads
LoopHeads(addr) == IF addr = 99 THEN { <<56, 46, 50>> } ELSE NumericHeads(addr)

RECURSIVE Passes(_, _, _)
\* the outcomes of read_sensors' loop over reg from descriptor i on, for every
\* choice of the numbers the connected probes send
Passes(reg, i, acc) ==
    IF i > Len(reg) THEN {acc}
    ELSE IF ~ visits(reg[i]) THEN Passes(reg, i + 1, acc)
    ELSE UNION { Passes(reg, i + 1, a) :
                 a \in { Polled(acc, reg[i], head) :
                         head \in LoopHeads(reg[i].i2c) } }

\* read_sensors is entered: no reading yet, ref_temp = 25, no time spent
NoPass ==
    [readings |-> <<>>, ref_temp |-> PyInt(default_ref_temp),
     device |-> NoDevice, qcmd |-> <<>>, qresult |-> <<>>, elapsed |-> 0]

\* the outcomes of a whole pass of read_sensors, by registry
PassesOf == [reg \in Registries |-> Passes(reg, 1, NoPass)]

\* read_sensors() with every exchange and every database statement
\* succeeding and, of the numbers the probes may send, those that leave some
\* value of the new row outside the bounds notify applies to it: the readings
\* are collected and stored in a new row
read_sensors_ok ==
    /\ pc = "read_sensors"
    /\ cycle < MaxLoopCycles
    /\ cycle' = cycle + 1
    /\ \E r \in PassesOf[sensors] :
          /\ OutOfBounds(StoredRow(columns, r.readings, {}, now + r.elapsed)) # {}
          /\ all_curr_readings' = r.readings
          /\ ref_temp' = r.ref_temp
          /\ IF r.device = NoDevice
             THEN UNCHANGED <<device, qcmd, qresult>>
             ELSE device' = r.device /\ qcmd' = r.qcmd /\ qresult' = r.qresult
          /\ now' = now + r.elapsed
          /\ sensors_row' = StoredRow(columns, r.readings, {}, now + r.elapsed)
    /\ idx' = Len(sensors) + 1
    /\ pc' = "notify"
    /\ UNCHANGED <<sensors, error, qpc, last_frame, log, columns, email_time,
                   evals, calls>>

\* the program as shipped: the registry of the source
InitLoop ==
    /\ sensors = atlas_sensors
    /\ pc = "create_database"
    /\ error = "none"
    /\ now = 0
    /\ cycle = 0
    /\ idx = 0
    /\ ref_temp = PyInt(default_ref_temp)
    /\ all_curr_readings = <<>>
    /\ device = NoDevice
    /\ qpc = "idle"
    /\ qcmd = <<>>
    /\ qresult = <<>>
    /\ last_frame = <<>>
    /\ log = <<>>
    /\ columns = <<>>
    /\ sensors_row = <<>>
    /\ email_time = 0
    /\ evals = <<>>
    /\ calls = 0

NextLoop ==
    \/ create_database
    \/ create_sensors_table
    \/ remove_unused_sensors
    \/ read_sensors_ok
    \/ notify
    \/ main_sleep

\* the program is sequential and never waits: whenever it has a next
\* statement it executes it
SpecLoop == InitLoop /\ [][NextLoop]_vars /\ WF_vars(NextLoop)


-----------------------------------------------------------------------------
(* Vocabulary of the properties.                                           *)

\* log entry e is the write of a compensation command "T,<ref>"
IsCompensation(e) == e.op = "write" /\ StartsWith(e.data, TXT_T)

\* log entry e is the write of the read command "R"
IsReadCommand(e) == e.op = "write" /\ e.data = <<82, 0>>

\* descriptor p is a connected temperature probe marked as the reference
IsConnectedReference(p) ==
    /\ sensors[p].is_connected
    /\ sensors[p].sensor_type = "atlas_scientific_temp"
    /\ sensors[p].is_ref

\* the readings collected so far hold one for descriptor p
HasReading(p) ==
    \E j \in 1..Len(all_curr_readings) : all_curr_readings[j][1] = sensors[p].name

\* the reply to the read command "R" of the descriptor being polled has
\* arrived with a status other than success
ProtocolErrorOnRead ==
    /\ qpc = "return"
    /\ qcmd = TXT_R
    /\ last_frame # <<>>
    /\ last_frame[1] # 1

-----------------------------------------------------------------------------
(* C1.  Partial-failure tolerance: when the exchange of a connected probe  *)
(* p returns a frame whose status byte is not 1, the pass goes on, so that *)
(* the other connected probes' Readings reach the persistence sink: the    *)
(* process is not ended by it while other probes are connected.            *)
C1_PartialFailureTolerance ==
    \A p \in 1..Len(sensors) :
        ( /\ idx = p
          /\ ProtocolErrorOnRead
          /\ \E q \in 1..Len(sensors) : q # p /\ sensors[q].is_connected )
        => pc # "terminated"

(* C2.  Alert cooldown: of two consecutive evaluations by notify, at t0    *)
(* and t1 with t1 - t0 < email_delay, that both see an out-of-bounds       *)
(* reading, the one at t1 emits no alert.                                  *)
C2_CooldownSuppressesSecond ==
    ( /\ Len(evals) = 2
      /\ evals[1].error = "none" /\ evals[2].error = "none"
      /\ evals[1].out # {} /\ evals[2].out # {}
      /\ evals[2].t - evals[1].t < email_delay * TicksPerSecond )
    => evals[2].alerts = <<>>

(* C3.  Once start-up has succeeded (a polling pass has begun), no error   *)
(* met inside a pass ends the process.                                     *)
C3_LoopSurvivesErrors == pc = "terminated" => cycle = 0

(* C4.  Within a pass, the compensation exchange "T,<ref>" with a probe p  *)
(* is followed at once by the read exchange "R" with p: the entries after  *)
(* the compensation write are, as far as the pass has come, the read of    *)
(* the compensation's reply, the write of "R" and the read of its reply,   *)
(* all on p's address, and until they are complete the pass stays with p.  *)
C4_CompensationThenRead ==
    \A i \in 1..Len(log) :
        IsCompensation(log[i]) =>
            LET p == log[i].probe
                OnP(e) == e.probe = p /\ e.addr = sensors[p].i2c
            IN  /\ OnP(log[i])
                /\ i + 1 <= Len(log) => log[i + 1].op = "read" /\ OnP(log[i + 1])
                /\ i + 2 <= Len(log) => IsReadCommand(log[i + 2]) /\ OnP(log[i + 2])
                /\ i + 3 <= Len(log) => log[i + 3].op = "read" /\ OnP(log[i + 3])
                /\ i + 3 > Len(log) => idx = p

\* a compensation and the read after it are complete and the pass has gone
\* on to another descriptor
C4_Witness ==
    \E i \in 1..Len(log) :
        /\ IsCompensation(log[i])
        /\ i + 4 <= Len(log)
        /\ log[i + 4].probe # log[i].probe

\* the reading collected for descriptor p (which has one)
ReadingOf(p) ==
    all_curr_readings[CHOOSE j \in 1..Len(all_curr_readings) :
                          all_curr_readings[j][1] = sensors[p].name][2]

(* C5.  In every pass each connected temperature probe is queried before   *)
(* any compensation command is sent, so that, whatever the order of the    *)
(* registry, every compensation command of a pass in which the connected   *)
(* reference probe read successfully carries that probe's rounded reading. *)
C5_CompensationCarriesReference ==
    /\ \A i \in 1..Len(log) :
          IsCompensation(log[i]) =>
              \A p \in 1..Len(sensors) :
                  ( /\ sensors[p].is_connected
                    /\ sensors[p].sensor_type = "atlas_scientific_temp" )
                  => \E j \in 1..(i - 1) : log[j].op = "read" /\ log[j].probe = p
    /\ pc = "log_sensor_readings" =>
          \A p \in 1..Len(sensors) :
              IsConnectedReference(p) =>
                  \A i \in 1..Len(log) :
                      IsCompensation(log[i]) =>
                          log[i].data = Utf8(TXT_T \o StrFloat(ReadingOf(p)) \o <<0>>)

(* C6.  If no connected descriptor is a reference temperature probe, every *)
(* compensation command of the pass carries the fallback: its frame is     *)
(* "T,25" and the terminator.                                              *)
C6_FallbackReference ==
    (~ \E p \in 1..Len(sensors) : IsConnectedReference(p))
    => \A i \in 1..Len(log) :
           IsCompensation(log[i]) => log[i].data = <<84, 44, 50, 53, 0>>

\* a connected temperature probe that is not the reference has given its
\* reading and a compensation command has been sent after it
C6_Witness ==
    /\ ~ \E p \in 1..Len(sensors) : IsConnectedReference(p)
    /\ \E p \in 1..Len(sensors) :
          /\ sensors[p].is_connected
          /\ sensors[p].sensor_type = "atlas_scientific_temp"
          /\ HasReading(p)
          /\ \E i \in 1..Len(log) : IsCompensation(log[i]) /\ log[i].probe > p

(* C7.  AtlasI2C.query with a command whose upper-cased text begins with   *)
(* "SLEEP" never reads from the bus: it writes the command frame and       *)
(* returns "sleep mode" with no read and no settle delay.                  *)
C7_SleepNeverReads ==
    StartsWith(Upper(qcmd), TXT_SLEEP) =>
        /\ qpc # "read"
        /\ \A i \in 1..Len(log) : log[i].op # "read"
        /\ qpc \in {"return", "idle"} =>
              /\ qresult = TXT_sleep_mode
              /\ Len(log) = 1
              /\ log[1].op = "write"
              /\ now = log[1].t

\* query has returned for a command that spells SLEEP in lower case
C7_Witness ==
    /\ qpc = "return"
    /\ qcmd = <<115, 108, 101, 101, 112, 121>>
    /\ qresult = TXT_sleep_mode

(* C8.  In AtlasI2C.query the response is read no sooner than the settle   *)
(* delay after the command frame was written: long_timeout for a command   *)
(* beginning with R or CAL, short_timeout for every other command that     *)
(* does not begin with SLEEP.                                              *)
C8_SettleDelay ==
    /\ qpc = "read" =>
          /\ Len(log) >= 1
          /\ now - log[Len(log)].t >=
                (IF StartsWith(Upper(qcmd), TXT_R) \/ StartsWith(Upper(qcmd), TXT_CAL)
                 THEN long_timeout ELSE short_timeout)
    /\ \A i \in 1..Len(log) :
          log[i].op = "read" =>
              /\ i > 1
              /\ log[i - 1].op = "write"
              /\ log[i - 1].data = Utf8(qcmd \o <<0>>)
              /\ log[i].t - log[i - 1].t >=
                    (IF StartsWith(Upper(qcmd), TXT_R) \/ StartsWith(Upper(qcmd), TXT_CAL)
                     THEN long_timeout ELSE short_timeout)

\* the reply to a calibration command written in lower case has been read,
\* long_timeout after the write
C8_Witness ==
    /\ qpc = "return"
    /\ qcmd = <<99, 97, 108, 44, 63>>
    /\ Len(log) = 2
    /\ log[2].op = "read"
    /\ log[2].t - log[1].t = long_timeout

\* the decoding of response res as the wire format defines it: after status 1
\* the text is, byte for byte, the payload with bit 7 cleared, up to the first
\* byte that is NUL once cleared; after any other status it is "Error " and
\* the status in decimal
DecodesTo(res, text) ==
    IF res[1] = 1
    THEN /\ Len(text) <= Len(res) - 1
         /\ \A i \in 1..Len(text) : text[i] = res[i + 1] % 128 /\ text[i] # 0
         /\ Len(text) < Len(res) - 1 => res[Len(text) + 2] % 128 = 0
    ELSE /\ Len(text) >= Len(TXT_Error) + 1
         /\ SubSeq(text, 1, Len(TXT_Error)) = TXT_Error
         /\ \A i \in (Len(TXT_Error) + 1)..Len(text) : IsDigit(text[i])
         /\ DigitsValue(SubSeq(text, Len(TXT_Error) + 1, Len(text))) = res[1]

\* the frame just read is num_of_bytes long and the value query returns is
\* its decoding
C9_Decoded ==
    (qpc = "return" /\ last_frame # <<>>) =>
        /\ Len(last_frame) = num_of_bytes
        /\ DecodesTo(last_frame, qresult)

(* C9 as claimed.  Every inbound frame is decoded as the wire format says, *)
(* and a frame whose status byte is not 1 leaves the probe it came from    *)
(* without a Reading.                                                      *)
C9_ErrorFrameNoReading ==
    /\ C9_Decoded
    /\ \A i \in 1..Len(log) :
          (log[i].op = "read" /\ log[i].status # 1) => ~ HasReading(log[i].probe)

(* C9 as amended.  Every inbound frame is decoded as the wire format says, *)
(* and a frame that answers the read command "R" with a status byte other  *)
(* than 1 leaves the probe without a Reading: the pass stops at that probe.*)
(* (The reply to a compensation command is dropped whatever its status.)   *)
C9_FrameDecoding ==
    /\ C9_Decoded
    /\ \A i \in 1..Len(log) :
          ( /\ log[i].op = "read"
            /\ log[i].status # 1
            /\ i > 1
            /\ IsReadCommand(log[i - 1]) )
          => /\ ~ HasReading(log[i].probe)
             /\ idx = log[i].probe
             /\ pc \in {"query_R", "terminated"}

\* after a reading decoded from a payload sent with bit 7 set, the next
\* probe's reply to "R" carries status 2 and a payload, and the pass has
\* ended there with no Reading for it
C9_Witness ==
    /\ pc = "terminated"
    /\ error = "ValueError"
    /\ last_frame # <<>>
    /\ last_frame[1] = 2
    /\ last_frame[2] = 198
    /\ all_curr_readings = << <<"Temp", 26370>> >>
    /\ idx = 2

(* C10.  When every exchange of a pass succeeds, the readings handed to    *)
(* log_sensor_readings are one per connected descriptor and none for a     *)
(* disconnected one, in registry order; and no bus operation of the pass   *)
(* is made for a disconnected descriptor or on its address.                *)
C10_OneReadingPerConnected ==
    /\ pc = "log_sensor_readings" =>
          LET polled == SelectSeq(sensors, LAMBDA v : v.is_connected)
          IN  /\ Len(all_curr_readings) = Len(polled)
              /\ \A j \in 1..Len(polled) : all_curr_readings[j][1] = polled[j].name
    /\ \A i \in 1..Len(log) :
          /\ sensors[log[i].probe].is_connected
          /\ \A q \in 1..Len(sensors) :
                ~ sensors[q].is_connected => log[i].addr # sensors[q].i2c

\* a pass over a registry with a disconnected descriptor between two
\* connected ones is complete
C10_Witness ==
    /\ pc = "log_sensor_readings"
    /\ Len(all_curr_readings) = 3
    /\ \E q \in 2..(Len(sensors) - 1) :
          /\ ~ sensors[q].is_connected
          /\ sensors[q - 1].is_connected
          /\ sensors[q + 1].is_connected

\* the column that holds the readings of a metric: the name of its probe in
\* the registry
ColumnOf(metric) ==
    CASE metric = "temperature" -> "Temp"
      [] metric = "pH" -> "pH"
      [] metric = "salinity" -> "Salinity"

(* C11.  In notify the value compared against the bounds of a metric is    *)
(* that metric's own reading in the latest row, whatever the connected     *)
(* flags of the registry: when notify is about to evaluate a row, every    *)
(* cell x[k] it compares is the cell of the column of the metric whose     *)
(* bounds it is compared against.                                          *)
C11_OwnReadingCompared ==
    (pc = "notify" /\ sensors_row # <<>>) =>
        \A i \in 1..Len(Metrics) :
            Len(sensors_row) >= Metrics[i].k + 1 =>
                columns[Metrics[i].k + 1] = ColumnOf(Metrics[i].metric)


\* email_time when block i of evaluation e began
GateBefore(e, i) == IF i = 1 THEN e.gate ELSE e.gates[i - 1]

\* the alerts of evaluation e that name metric m
AlertsFor(e, m) == { a \in 1..Len(e.alerts) : e.alerts[a].metric = m }

(* C12.  In notify, whenever a metric is out of bounds and now >=           *)
(* email_time when its block is reached, the block (once the delivery has  *)
(* returned) has sent exactly one alert for that metric and has set        *)
(* email_time to now + email_delay.  In particular an evaluation with no   *)
(* alert before it in which exactly one metric is out of bounds sends      *)
(* exactly one alert, for that metric.                                     *)
C12_AlertWhenOpen ==
    \A j \in 1..Len(evals) :
        LET e == evals[j]
        IN  /\ \A i \in 1..Len(e.gates) :
                  ( /\ Metrics[i].metric \in e.out
                    /\ e.t >= GateBefore(e, i) )
                  => /\ Cardinality(AlertsFor(e, Metrics[i].metric)) = 1
                     /\ e.gates[i] = e.t + email_delay * TicksPerSecond
            /\ ( /\ e.prev_alert < 0
                 /\ e.error = "none"
                 /\ Cardinality(e.out) = 1 )
               => /\ Len(e.alerts) = 1
                  /\ e.alerts[1].metric \in e.out

\* the first evaluation of the process has seen pH 8.95, within the bounds
\* of temperature and salinity, and has sent one alert, for pH
C12_Witness ==
    /\ Len(evals) = 1
    /\ pc = "sleep"
    /\ columns = <<"timestamp", "Temp", "pH", "Salinity">>
    /\ sensors_row[3] = <<8950>>
    /\ evals[1].out = {"pH"}
    /\ evals[1].alerts = << [metric |-> "pH", value |-> 8950, unit |-> " "] >>
    /\ evals[1].gates[2] = evals[1].t + email_delay * TicksPerSecond

\* the first metric, in program order, that evaluation e found out of bounds
FirstOut(e) ==
    Metrics[CHOOSE i \in 1..Len(Metrics) :
                /\ Metrics[i].metric \in e.out
                /\ \A h \in 1..(i - 1) : Metrics[h].metric \notin e.out].metric

(* C13.  The cooldown gate is one value shared by the metrics and only the *)
(* last block resets it: after an evaluation that found salinity within    *)
(* bounds email_time is the time of that evaluation, whatever temperature  *)
(* and pH were, so that the next evaluation alerts for the first metric it *)
(* finds out of bounds; a temperature or pH within bounds leaves           *)
(* email_time as it was.                                                   *)
C13_ResetBySalinityOnly ==
    /\ \A j \in 1..Len(evals) :
          LET e == evals[j]
          IN  /\ (e.error = "none" /\ "salinity" \notin e.out) =>
                    /\ e.gates[3] = e.t
                    /\ j = Len(evals) => email_time = e.t
              /\ \A i \in 1..2 :
                    (i <= Len(e.gates) /\ Metrics[i].metric \notin e.out)
                    => e.gates[i] = GateBefore(e, i)
    /\ ( /\ Len(evals) = 2
         /\ evals[1].error = "none" /\ "salinity" \notin evals[1].out
         /\ evals[2].error = "none" /\ evals[2].out # {} )
       => /\ evals[2].gate = evals[1].t
          /\ evals[2].alerts # <<>>
          /\ evals[2].alerts[1].metric = FirstOut(evals[2])

\* temperature was out of bounds and salinity within in an evaluation that
\* sent an alert; the next evaluation, sooner than email_delay after it,
\* found temperature out of bounds again and sent an alert again
C13_Witness ==
    /\ Len(evals) = 2
    /\ evals[1].out = {"temperature"}
    /\ evals[1].alerts # <<>>
    /\ evals[1].gates = <<evals[1].t + email_delay * TicksPerSecond,
                          evals[1].t + email_delay * TicksPerSecond,
                          evals[1].t>>
    /\ evals[2].t - evals[1].t < email_delay * TicksPerSecond
    /\ evals[2].out = {"temperature", "pH"}
    /\ Len(evals[2].alerts) = 1
    /\ evals[2].alerts[1].metric = "temperature"

\* log entry e is a frame on the bus
IsFrame(e) == e.op \in {"write", "read"}

(* C14.  Bus addressing: every frame written or read during a pass goes to *)
(* the address bound on the device in use, which is the i2c address of the *)
(* descriptor being polled; the address is bound anew before the first     *)
(* frame of each descriptor, so that no frame of a descriptor goes to the  *)
(* address of a descriptor polled before it.                               *)
C14_BusAddressing ==
    /\ (pc \in {"query_T", "query_R"}) =>
          device.current_addr = sensors[idx].i2c
    /\ \A i \in 1..Len(log) :
          IsFrame(log[i]) =>
              /\ log[i].addr = sensors[log[i].probe].i2c
              /\ \E b \in 1..(i - 1) :
                    /\ log[b].op = "bind"
                    /\ log[b].probe = log[i].probe
                    /\ log[b].addr = log[i].addr
                    /\ \A h \in b..i : log[h].probe = log[i].probe
              /\ \A h \in 1..(i - 1) :
                    log[h].probe # log[i].probe => log[h].addr # log[i].addr

\* the pass has exchanged frames with one descriptor and has written a
\* frame to the next, at another address
C14_Witness ==
    \E i \in 1..Len(log) : \E j \in (i + 1)..Len(log) :
        /\ log[i].op = "read"
        /\ log[j].op = "write"
        /\ log[i].probe # log[j].probe
        /\ log[i].addr # log[j].addr
        /\ log[j].addr = device.current_addr

(* C15.  Each call of AtlasI2C.query writes exactly one frame, the bytes   *)
(* of the command followed by exactly one 0x00, before any read; for a     *)
(* command that does not begin with SLEEP (in any case of the letters) it  *)
(* then makes exactly one read, of 31 bytes.                               *)
C15_OneWriteOneRead ==
    /\ qpc = "write" => log = <<>>
    /\ qpc \in {"settle", "read"} => Len(log) = 1
    /\ log # <<>> =>
          /\ log[1].op = "write"
          /\ log[1].data = Utf8(qcmd) \o <<0>>
          /\ log[1].n = Len(Utf8(qcmd)) + 1
          /\ \A i \in 2..Len(log) : log[i].op = "read"
    /\ (qpc = "return" /\ ~ StartsWith(Upper(qcmd), TXT_SLEEP)) =>
          /\ Len(log) = 2
          /\ log[2].op = "read"
          /\ log[2].n = 31
          /\ Len(last_frame) = 31
          /\ log[2].t >= log[1].t

\* query has returned for a command of one character outside ASCII: three
\* bytes were written, the last of them 0x00, and 31 bytes were read
C15_Witness ==
    /\ qpc = "return"
    /\ qcmd = <<233>>
    /\ Len(log) = 2
    /\ log[1].data = <<195, 169, 0>>
    /\ log[2].op = "read"
    /\ Len(last_frame) = 31

\* the decoding of a payload: bit 7 of every byte cleared, then the text
\* before the first NUL
PayloadDecode(payload) ==
    BeforeNul([i \in 1..Len(payload) |-> ClearBit7(payload[i])])

(* C16.  Payload decoding is idempotent: the text AtlasI2C.read returns    *)
(* for a frame of status 1 is the decoding of the frame's payload, and     *)
(* decoding that text again gives the same text, also for payloads that    *)
(* hold 0x80.                                                              *)
C16_DecodeIdempotent ==
    (qpc = "return" /\ last_frame # <<>> /\ last_frame[1] = 1) =>
        /\ qresult = PayloadDecode(Tail(last_frame))
        /\ PayloadDecode(qresult) = qresult
        /\ PayloadDecode(PayloadDecode(Tail(last_frame))) =
               PayloadDecode(Tail(last_frame))

\* the payload read is "F" with bit 7 set, then 0x80, then padding: the text
\* returned is "F"
C16_Witness ==
    /\ qpc = "return"
    /\ last_frame # <<>>
    /\ last_frame[1] = 1
    /\ last_frame[2] = 198
    /\ last_frame[3] = 128
    /\ qresult = <<70>>

(* C17.  With email_delay > 0 one call of notify sends at most one alert   *)
(* for the row it evaluates, however many metrics are out of bounds; when  *)
(* several are and the gate is open, the alert is for the first of them in *)
(* the order temperature, pH, salinity, and the later ones find the gate   *)
(* closed by the alert just sent.                                          *)
C17_AtMostOneAlert ==
    /\ email_delay > 0
    /\ \A j \in 1..Len(evals) :
          LET e == evals[j]
          IN  /\ Len(e.alerts) <= 1
              /\ (e.error = "none" /\ e.out # {} /\ e.t >= e.gate) =>
                    /\ Len(e.alerts) = 1
                    /\ e.alerts[1].metric = FirstOut(e)
                    /\ \A i \in 1..Len(Metrics) :
                          ( /\ Metrics[i].metric \in e.out
                            /\ Metrics[i].metric # FirstOut(e) )
                          => /\ GateBefore(e, i) > e.t
                             /\ e.gates[i] = GateBefore(e, i)

\* an evaluation found the three metrics out of bounds with the gate open
\* and sent the alert for temperature only
C17_Witness ==
    /\ evals # <<>>
    /\ evals[Len(evals)].out = {"temperature", "pH", "salinity"}
    /\ evals[Len(evals)].t >= evals[Len(evals)].gate
    /\ Len(evals[Len(evals)].alerts) = 1
    /\ evals[Len(evals)].alerts[1].metric = "temperature"
    /\ email_time = evals[Len(evals)].t + email_delay * TicksPerSecond

\* email_time as evaluation e left it
GateAfter(e) == IF e.gates = <<>> THEN e.gate ELSE e.gates[Len(e.gates)]

(* C18.  A suppressed alert does not extend the cooldown: an evaluation    *)
(* that finds salinity out of bounds and reaches every out-of-bounds       *)
(* metric while now < email_time sends nothing and leaves email_time as it *)
(* was.  read_sensors never changes email_time: at every point of the      *)
(* program email_time is what the latest evaluation left, or the time of   *)
(* the process start if there was none.                                    *)
C18_SuppressedKeepsGate ==
    /\ \A j \in 1..Len(evals) :
          LET e == evals[j]
          IN  (e.error = "none" /\ "salinity" \in e.out /\ e.t < e.gate) =>
                  /\ e.alerts = <<>>
                  /\ e.gates = <<e.gate, e.gate, e.gate>>
                  /\ j = Len(evals) => email_time = e.gate
    /\ email_time = IF evals = <<>> THEN 0 ELSE GateAfter(evals[Len(evals)])
    /\ Len(evals) = 2 => evals[2].gate = GateAfter(evals[1])

\* an alert for salinity was sent in one pass; in the next pass, after
\* read_sensors, salinity and pH are out of bounds, nothing is sent and
\* email_time is still the first alert's time plus email_delay
C18_Witness ==
    /\ Len(evals) = 2
    /\ pc = "sleep"
    /\ evals[1].alerts # <<>>
    /\ evals[2].out = {"pH", "salinity"}
    /\ evals[2].t < evals[2].gate
    /\ evals[2].alerts = <<>>
    /\ email_time = evals[1].t + email_delay * TicksPerSecond

\* the time one pass of read_sensors over the source's registry takes
PassElapsed == (CHOOSE r \in PassesOf[atlas_sensors] : TRUE).elapsed

\* the time from one evaluation to the next: the sleep of the main loop and
\* a pass
CyclePeriod == loop_sleep * TicksPerSecond + PassElapsed

\* the time of the last evaluation of a run of MaxLoopCycles passes
LastEvalTime == PassElapsed + (MaxLoopCycles - 1) * CyclePeriod

\* the latest evaluation found a metric out of bounds and sent no alert
C19_Suppressed ==
    /\ evals # <<>>
    /\ evals[Len(evals)].error = "none"
    /\ evals[Len(evals)].out # {}
    /\ evals[Len(evals)].alerts = <<>>

\* the latest evaluation found a metric out of bounds and sent no alert, and
\* the run lasts for email_delay and a cycle period after the alert before it
C19_Waiting ==
    /\ pc = "sleep"
    /\ evals # <<>>
    /\ evals[Len(evals)].out # {}
    /\ evals[Len(evals)].alerts = <<>>
    /\ evals[Len(evals)].prev_alert >= 0
    /\ evals[Len(evals)].prev_alert + email_delay * TicksPerSecond + CyclePeriod
           <= LastEvalTime

\* the latest evaluation sent an alert
C19_Alerted == evals # <<>> /\ evals[Len(evals)].alerts # <<>>

\* a database statement or a delivery has failed
C19_Failed == pc = "terminated" /\ error \in {"cymysql.Error", "SMTPException"}

\* two consecutive evaluations are a cycle period apart, and an alert sent
\* by the second, the first having found a metric out of bounds, comes at
\* most email_delay and a cycle period after the alert before it
C19_Gap ==
    Len(evals) = 2 =>
        /\ evals[2].t - evals[1].t = CyclePeriod
        /\ ( /\ evals[1].out # {}
             /\ evals[2].alerts # <<>>
             /\ evals[2].prev_alert >= 0 )
           => evals[2].t - evals[2].prev_alert
                  <= email_delay * TicksPerSecond + CyclePeriod

(* C19.  No violation is suppressed forever: while some metric is out of   *)
(* bounds in every cycle and every exchange and delivery succeeds, an      *)
(* evaluation that sends no alert is followed by one that does, and an     *)
(* alert comes at most email_delay plus one cycle period after the alert   *)
(* before it.                                                              *)
C19_AlertsRecur ==
    /\ [] C19_Gap
    /\ [] (C19_Suppressed => evals[Len(evals)].prev_alert >= 0)
    /\ [] (C19_Waiting => <> (C19_Alerted \/ C19_Failed))

\* an alert has been sent after a stretch of suppressed ones: email_delay or
\* more after the alert before it
C19_Witness ==
    /\ Len(evals) = 2
    /\ evals[1].out # {}
    /\ evals[1].alerts = <<>>
    /\ evals[2].alerts # <<>>
    /\ evals[2].prev_alert >= 0
    /\ evals[2].t - evals[2].prev_alert >= email_delay * TicksPerSecond
=============================================================================
